---- MODULE Spec2Model ----
(***************************************************************************)
(* PathForge backend: the /api/forge route handlers (five iterations of    *)
(* the same endpoint), the narrative validator, the Gemini service with    *)
(* its lazily initialised client, and the reply normalisers.               *)
(*                                                                         *)
(* JavaScript values are tagged records: [t |-> "undef"], [t |-> "null"],  *)
(* [t |-> "num", n |-> i], [t |-> "bool", b |-> x], [t |-> "str", ...],    *)
(* [t |-> "arr", a |-> seq], [t |-> "obj", o |-> record].  A string whose  *)
(* length matters (the narrative) is kept run-length encoded: a sequence   *)
(* of runs [ws |-> is-whitespace, n |-> characters].                       *)
(***************************************************************************)
EXTENDS Integers, Sequences, FiniteSets, TLC

VARIABLES
  variant,   \* which iteration of app/api/forge/route.js is deployed
  apiKey,    \* whether process.env.GEMINI_API_KEY is set
  genAI,     \* the module-level client of the Gemini service
  envReads,  \* reads of process.env.GEMINI_API_KEY so far
  built,     \* constructions of GoogleGenerativeAI so far
  req,       \* the requests: position, locals and responses sent
  vIn, vOut, \* validateNarrative applied to one value
  pIn, pOut  \* the normalisers applied to one reply text

vars == <<variant, apiKey, genAI, envReads, built, req, vIn, vOut, pIn, pOut>>

handlerVars == <<variant, apiKey, genAI, envReads, built, req>>

pureVars == <<vIn, vOut, pIn, pOut>>

----------------------------------------------------------------------------
(* JavaScript values *)

Undefined == [t |-> "undef"]

Null == [t |-> "null"]

Num(i) == [t |-> "num", n |-> i]

Bool(x) == [t |-> "bool", b |-> x]

Str(s) == [t |-> "str", s |-> s]

Text(runs) == [t |-> "str", runs |-> runs]

Arr(a) == [t |-> "arr", a |-> a]

Obj(o) == [t |-> "obj", o |-> o]

IsText(v) == v.t = "str" /\ "runs" \in DOMAIN v

\* ToBoolean: undefined, null, 0, "" and false are falsy
Truthy(v) ==
  CASE v.t = "undef" -> FALSE
    [] v.t = "null" -> FALSE
    [] v.t = "num" -> v.n # 0
    [] v.t = "bool" -> v.b
    [] v.t = "str" -> IF IsText(v) THEN v.runs # <<>> ELSE v.s # ""
    [] OTHER -> TRUE

----------------------------------------------------------------------------
(* Run-length encoded strings *)

RECURSIVE RunsLength(_)
RunsLength(runs) ==
  IF runs = <<>> THEN 0 ELSE Head(runs).n + RunsLength(Tail(runs))

RECURSIVE TrimStart(_)
TrimStart(runs) ==
  IF runs # <<>> /\ Head(runs).ws THEN TrimStart(Tail(runs)) ELSE runs

RECURSIVE TrimEnd(_)
TrimEnd(runs) ==
  IF runs # <<>> /\ runs[Len(runs)].ws
    THEN TrimEnd(SubSeq(runs, 1, Len(runs) - 1))
    ELSE runs

\* String.prototype.trim
Trim(runs) == TrimEnd(TrimStart(runs))

----------------------------------------------------------------------------
(* validation.js *)

MIN_LENGTH == 10

MAX_LENGTH == 5000

\* the validator with the lower limit made exclusive (<= for <)
validateNarrativeMinExclusive(narrative) ==
  IF ~Truthy(narrative)
    THEN [valid |-> FALSE, error |-> Str("Narrative is required")]
  ELSE IF narrative.t # "str"
    THEN [valid |-> FALSE, error |-> Str("Narrative must be a string")]
  ELSE LET trimmed == Trim(narrative.runs) IN
    IF RunsLength(trimmed) <= MIN_LENGTH
      THEN [valid |-> FALSE,
            error |-> Str("Narrative must be at least 10 characters long")]
    ELSE IF RunsLength(trimmed) > MAX_LENGTH
      THEN [valid |-> FALSE,
            error |-> Str("Narrative must not exceed 5000 characters")]
    ELSE [valid |-> TRUE, error |-> Null]

\* the validator without its upper limit
validateNarrativeNoMax(narrative) ==
  IF ~Truthy(narrative)
    THEN [valid |-> FALSE, error |-> Str("Narrative is required")]
  ELSE IF narrative.t # "str"
    THEN [valid |-> FALSE, error |-> Str("Narrative must be a string")]
  ELSE LET trimmed == Trim(narrative.runs) IN
    IF RunsLength(trimmed) < MIN_LENGTH
      THEN [valid |-> FALSE,
            error |-> Str("Narrative must be at least 10 characters long")]
    ELSE [valid |-> TRUE, error |-> Null]

validateNarrative(narrative) ==
  IF ~Truthy(narrative)
    THEN [valid |-> FALSE, error |-> Str("Narrative is required")]
  ELSE IF narrative.t # "str"
    THEN [valid |-> FALSE, error |-> Str("Narrative must be a string")]
  ELSE LET trimmed == Trim(narrative.runs) IN
    IF RunsLength(trimmed) < MIN_LENGTH
      THEN [valid |-> FALSE,
            error |-> Str("Narrative must be at least 10 characters long")]
    ELSE IF RunsLength(trimmed) > MAX_LENGTH
      THEN [valid |-> FALSE,
            error |-> Str("Narrative must not exceed 5000 characters")]
    ELSE [valid |-> TRUE, error |-> Null]

----------------------------------------------------------------------------
(* Property access, || and exceptions *)

Nullish(v) == v.t \in {"undef", "null"}

\* v.k on a value that is neither null nor undefined
Get(v, k) == IF v.t = "obj" /\ k \in DOMAIN v.o THEN v.o[k] ELSE Undefined

\* v?.k
OptGet(v, k) == IF Nullish(v) THEN Undefined ELSE Get(v, k)

\* a || d
OrElse(a, d) == IF Truthy(a) THEN a ELSE d

IsArray(v) == v.t = "arr"

IsNumber(v) == v.t = "num"

Max(a, b) == IF a >= b THEN a ELSE b

Min(a, b) == IF a <= b THEN a ELSE b

Return(v) == [ok |-> TRUE, value |-> v]

Throw(msg) == [ok |-> FALSE, error |-> msg]

\* TypeError of reading property k of null
NullRead(k) == "Cannot read properties of null (reading '" \o k \o "')"

----------------------------------------------------------------------------
(* The reply text: a sequence of tokens.  A token is one character class   *)
(* (a backtick "tick", "{", "}", " ", "\n", the word "json", prose "x") or  *)
(* the members of a JSON object between its outer braces                   *)
(* ([c |-> "members", m |-> record]).                                      *)

Ch(c) == [c |-> c]

Members(m) == [c |-> "members", m |-> m]

IsWs(tok) == tok.c \in {" ", "\n"}

DropLast(text, k) == SubSeq(text, 1, Len(text) - k)

DropFirst(text, k) == SubSeq(text, k + 1, Len(text))

RECURSIVE TrimTextStart(_)
TrimTextStart(text) ==
  IF text # <<>> /\ IsWs(Head(text)) THEN TrimTextStart(Tail(text)) ELSE text

RECURSIVE TrimTextEnd(_)
TrimTextEnd(text) ==
  IF text # <<>> /\ IsWs(text[Len(text)])
    THEN TrimTextEnd(DropLast(text, 1))
    ELSE text

\* rawResponse.trim()
TrimText(text) == TrimTextEnd(TrimTextStart(text))

\* jsonText.startsWith(FENCE), FENCE being three backticks
StartsWithFence(text) ==
  Len(text) >= 3 /\ \A i \in 1..3 : text[i].c = "tick"

EndsWithFence(text) ==
  Len(text) >= 3 /\ \A i \in (Len(text) - 2)..Len(text) : text[i].c = "tick"

\* .replace(/^FENCE(?:json)?\s*/, '')
StripOpenFence(text) ==
  IF ~StartsWithFence(text) THEN text
  ELSE LET a == DropFirst(text, 3)
           b == IF a # <<>> /\ Head(a).c = "json" THEN Tail(a) ELSE a
       IN TrimTextStart(b)

\* .replace(/\s*FENCE$/, '')
StripCloseFence(text) ==
  IF ~EndsWithFence(text) THEN text ELSE TrimTextEnd(DropLast(text, 3))

\* .replace(/^FENCE(?:json)?\n?/, '')
StripOpenFenceNl(text) ==
  IF ~StartsWithFence(text) THEN text
  ELSE LET a == DropFirst(text, 3)
           b == IF a # <<>> /\ Head(a).c = "json" THEN Tail(a) ELSE a
       IN IF b # <<>> /\ Head(b).c = "\n" THEN Tail(b) ELSE b

\* .replace(/\n?FENCE$/, '')
StripCloseFenceNl(text) ==
  IF ~EndsWithFence(text) THEN text
  ELSE LET a == DropLast(text, 3)
       IN IF a # <<>> /\ a[Len(a)].c = "\n" THEN DropLast(a, 1) ELSE a

RECURSIVE StripBackticksStart(_)
StripBackticksStart(text) ==
  IF text # <<>> /\ Head(text).c = "tick"
    THEN StripBackticksStart(Tail(text))
    ELSE text

RECURSIVE StripBackticksEnd(_)
StripBackticksEnd(text) ==
  IF text # <<>> /\ text[Len(text)].c = "tick"
    THEN StripBackticksEnd(DropLast(text, 1))
    ELSE text

\* .replace(/^TICK+|TICK+$/g, '')
StripBackticks(text) == StripBackticksEnd(StripBackticksStart(text))

NoMatch == << Ch("nomatch") >>

\* the match anchored at both ends, /^\{[\s\S]*\}$/
MatchJsonAnchored(text) ==
  IF text # <<>> /\ Head(text).c = "{" /\ text[Len(text)].c = "}"
    THEN text
    ELSE NoMatch

\* text.match(/\{[\s\S]*\}/): from the first "{" to the last "}" after it
MatchJson(text) ==
  LET opens == { i \in 1..Len(text) : text[i].c = "{" } IN
  IF opens = {} THEN NoMatch
  ELSE LET first == CHOOSE i \in opens : \A j \in opens : i <= j
           closes == { i \in (first + 1)..Len(text) : text[i].c = "}" }
       IN IF closes = {} THEN NoMatch
          ELSE LET last == CHOOSE i \in closes : \A j \in closes : j <= i
               IN SubSeq(text, first, last)

RECURSIVE SkipWs(_)
SkipWs(text) ==
  IF text = <<>> THEN <<>>
  ELSE IF IsWs(Head(text)) THEN SkipWs(Tail(text))
  ELSE << Head(text) >> \o SkipWs(Tail(text))

TokenAt(toks, i) == IF i <= Len(toks) THEN toks[i].c ELSE "end of input"

\* JSON.parse of a text that starts with "{": the object, or a SyntaxError
\* that quotes the offending token
JSONparse(text) ==
  LET toks == SkipWs(text)
      i == IF Len(toks) >= 2 /\ toks[2].c = "members" THEN 3 ELSE 2
      members == IF i = 3 THEN toks[2].m ELSE <<>>
  IN IF TokenAt(toks, i) # "}"
       THEN Throw("Unexpected token " \o TokenAt(toks, i) \o " in JSON")
     ELSE IF Len(toks) > i
       THEN Throw("Unexpected token " \o TokenAt(toks, i + 1) \o " in JSON")
     ELSE Return(Obj(members))

----------------------------------------------------------------------------
(* Helpers shared by the normalisers *)

\* for (const field of requiredFields) if (!(field in parsed)) throw ...
RECURSIVE MissingField(_, _)
MissingField(parsed, requiredFields) ==
  IF requiredFields = <<>> THEN ""
  ELSE IF Head(requiredFields) \notin DOMAIN parsed.o THEN Head(requiredFields)
  ELSE MissingField(parsed, Tail(requiredFields))

\* the first exception, in evaluation order, of a sequence of outcomes
RECURSIVE FirstError(_)
FirstError(msgs) ==
  IF msgs = <<>> THEN ""
  ELSE IF Head(msgs) # "" THEN Head(msgs)
  ELSE FirstError(Tail(msgs))

\* Array.isArray(x) ? x : []
\* the empty list only for a missing value (x || [])
ArrayOrEmptyIfMissing(v) == IF Truthy(v) THEN v ELSE Arr(<<>>)

ArrayOrEmpty(v) == IF IsArray(v) THEN v ELSE Arr(<<>>)

\* the fallback applied only to a missing value (x || fallback)
OneOfIfPresent(v, allowed, fallback) == IF Truthy(v) THEN v ELSE Str(fallback)

\* allowed.includes(x) ? x : fallback
OneOf(v, allowed, fallback) ==
  IF v.t = "str" /\ ~IsText(v) /\ v.s \in allowed THEN v ELSE Str(fallback)

----------------------------------------------------------------------------
(* route.js at its last iteration: parseResponse with safe defaults and    *)
(* learning resources                                                      *)

\* the sanitising prefix of parseResponse
SanitizeKeepingTicks(rawResponse) ==
  LET jsonText == TrimText(rawResponse)
  IN IF StartsWithFence(jsonText)
       THEN StripCloseFence(StripOpenFence(jsonText))
       ELSE jsonText

Sanitize(rawResponse) ==
  TrimText(StripBackticks(SanitizeKeepingTicks(rawResponse)))

\* the confidence capped at 100 only (Math.min without Math.max)
normalizeMetaUpperOnly(parsed) ==
  LET meta == Get(parsed, "meta")
      confidence == OptGet(meta, "confidence")
  IN Obj([inferredCareer |->
            OrElse(OptGet(meta, "inferredCareer"), Str("Unknown Career Path")),
          confidence |->
            IF IsNumber(confidence)
              THEN Num(Min(100, confidence.n))
              ELSE Num(60)])

normalizeMeta(parsed) ==
  LET meta == Get(parsed, "meta")
      confidence == OptGet(meta, "confidence")
  IN Obj([inferredCareer |->
            OrElse(OptGet(meta, "inferredCareer"), Str("Unknown Career Path")),
          confidence |->
            IF IsNumber(confidence)
              THEN Num(Max(0, Min(100, confidence.n)))
              ELSE Num(60)])

normalizeUnderstanding(parsed) ==
  LET u == Get(parsed, "understanding")
      hours == OptGet(u, "hoursPerWeek")
  IN Obj([interests |-> ArrayOrEmpty(OptGet(u, "interests")),
          workStyle |-> OrElse(OptGet(u, "workStyle"), Str("Not specified")),
          longTermGoal |->
            OrElse(OptGet(u, "longTermGoal"),
                   Str("Career growth and development")),
          hoursPerWeek |->
            IF IsNumber(hours) THEN Num(Max(0, hours.n)) ELSE Num(20)])

SkillLevels == {"beginner", "intermediate", "advanced"}

normalizeSkill(skill) ==
  Obj([name |-> OrElse(Get(skill, "name"), Str("Unnamed skill")),
       level |-> OneOf(Get(skill, "level"), SkillLevels, "beginner")])

skillError(skill) == IF Nullish(skill) THEN NullRead("name") ELSE ""

phaseId(index) == Str("phase-" \o ToString(index))

\* the callback keeping an id the source supplied (phase.id || ...)
normalizePhaseKeepId(phase, index) ==
  LET skills == Get(phase, "skills")
  IN Obj([id |-> OrElse(Get(phase, "id"), phaseId(index)),
          title |-> OrElse(Get(phase, "title"),
                           Str("Phase " \o ToString(index))),
          description |-> OrElse(Get(phase, "description"), Str("")),
          skills |->
            IF IsArray(skills)
              THEN Arr([i \in 1..Len(skills.a) |-> normalizeSkill(skills.a[i])])
              ELSE Arr(<<>>),
          tools |-> ArrayOrEmpty(Get(phase, "tools")),
          projects |-> ArrayOrEmpty(Get(phase, "projects"))])

\* every phase titled by its position, whatever title the source gave
normalizePhaseRetitle(phase, index) ==
  LET skills == Get(phase, "skills")
  IN Obj([id |-> phaseId(index),
          title |-> Str("Phase " \o ToString(index)),
          description |-> OrElse(Get(phase, "description"), Str("")),
          skills |->
            IF IsArray(skills)
              THEN Arr([i \in 1..Len(skills.a) |-> normalizeSkill(skills.a[i])])
              ELSE Arr(<<>>),
          tools |-> ArrayOrEmpty(Get(phase, "tools")),
          projects |-> ArrayOrEmpty(Get(phase, "projects"))])

\* the callback of parsed.roadmap.phases.map; index counts from 1 here, so
\* it stands for the code's index + 1
normalizePhase(phase, index) ==
  LET skills == Get(phase, "skills")
  IN Obj([id |-> phaseId(index),
          title |-> OrElse(Get(phase, "title"),
                           Str("Phase " \o ToString(index))),
          description |-> OrElse(Get(phase, "description"), Str("")),
          skills |->
            IF IsArray(skills)
              THEN Arr([i \in 1..Len(skills.a) |-> normalizeSkill(skills.a[i])])
              ELSE Arr(<<>>),
          tools |-> ArrayOrEmpty(Get(phase, "tools")),
          projects |-> ArrayOrEmpty(Get(phase, "projects"))])

phaseError(phase) ==
  IF Nullish(phase) THEN NullRead("title")
  ELSE IF IsArray(Get(phase, "skills"))
    THEN FirstError([i \in 1..Len(Get(phase, "skills").a) |->
                       skillError(Get(phase, "skills").a[i])])
  ELSE ""

sourcePhases(parsed) == OptGet(Get(parsed, "roadmap"), "phases")

normalizePhases(parsed) ==
  LET phases == sourcePhases(parsed)
  IN IF IsArray(phases)
       THEN Arr([i \in 1..Len(phases.a) |-> normalizePhase(phases.a[i], i)])
       ELSE Arr(<<>>)

phasesError(parsed) ==
  LET phases == sourcePhases(parsed)
  IN IF IsArray(phases)
       THEN FirstError([i \in 1..Len(phases.a) |-> phaseError(phases.a[i])])
       ELSE ""

ResourceTypes == {"youtube", "documentation", "course"}

Platforms == {"discord", "reddit", "forum"}

normalizeLearning(resource) ==
  Obj([skill |-> OrElse(Get(resource, "skill"), Str("General")),
       type |-> OneOf(Get(resource, "type"), ResourceTypes, "documentation"),
       title |-> OrElse(Get(resource, "title"), Str("Learning Resource")),
       description |-> OrElse(Get(resource, "description"),
                              Str("Resource for skill development"))])

\* the resource read through optional chaining (resource?.skill)
learningErrorOptional(resource) == ""

learningError(resource) == IF Nullish(resource) THEN NullRead("skill") ELSE ""

normalizeCommunity(community) ==
  Obj([name |-> OrElse(Get(community, "name"), Str("Community")),
       platform |-> OneOf(Get(community, "platform"), Platforms, "forum"),
       purpose |-> OrElse(Get(community, "purpose"),
                          Str("Community support and networking"))])

communityError(community) ==
  IF Nullish(community) THEN NullRead("name") ELSE ""

sourceResources(parsed) == OptGet(Get(parsed, "roadmap"), "resources")

normalizeResources(parsed) ==
  LET learning == OptGet(sourceResources(parsed), "learning")
      communities == OptGet(sourceResources(parsed), "communities")
  IN Obj([learning |->
            IF IsArray(learning)
              THEN Arr([i \in 1..Len(learning.a) |->
                          normalizeLearning(learning.a[i])])
              ELSE Arr(<<>>),
          communities |->
            IF IsArray(communities)
              THEN Arr([i \in 1..Len(communities.a) |->
                          normalizeCommunity(communities.a[i])])
              ELSE Arr(<<>>)])

resourcesError(parsed) ==
  LET learning == OptGet(sourceResources(parsed), "learning")
      communities == OptGet(sourceResources(parsed), "communities")
  IN FirstError(<<
       IF IsArray(learning)
         THEN FirstError([i \in 1..Len(learning.a) |->
                            learningError(learning.a[i])])
         ELSE "",
       IF IsArray(communities)
         THEN FirstError([i \in 1..Len(communities.a) |->
                            communityError(communities.a[i])])
         ELSE "" >>)

RequiredFields == <<"meta", "understanding", "roadmap">>

\* the normalisation without the required-field check, defaulting instead
normalizeParsedDefaulting(parsed) ==
  LET typeError == FirstError(<<phasesError(parsed), resourcesError(parsed)>>)
  IN IF typeError # "" THEN Throw(typeError)
     ELSE Return(Obj([meta |-> normalizeMeta(parsed),
                      understanding |-> normalizeUnderstanding(parsed),
                      roadmap |-> Obj([phases |-> normalizePhases(parsed),
                                       resources |->
                                         normalizeResources(parsed)])]))

\* parseResponse after JSON.parse
\* the lists returned at the top level, as in the first schema
normalizeParsedFlat(parsed) ==
  LET missing == MissingField(parsed, RequiredFields)
      typeError == FirstError(<<phasesError(parsed), resourcesError(parsed)>>)
  IN IF missing # "" THEN Throw("Missing required field: " \o missing)
     ELSE IF typeError # "" THEN Throw(typeError)
     ELSE Return(Obj([meta |-> normalizeMeta(parsed),
                      understanding |-> normalizeUnderstanding(parsed),
                      phases |-> normalizePhases(parsed),
                      resources |-> normalizeResources(parsed)]))

normalizeParsed(parsed) ==
  LET missing == MissingField(parsed, RequiredFields)
      typeError == FirstError(<<phasesError(parsed), resourcesError(parsed)>>)
  IN IF missing # "" THEN Throw("Missing required field: " \o missing)
     ELSE IF typeError # "" THEN Throw(typeError)
     ELSE Return(Obj([meta |-> normalizeMeta(parsed),
                      understanding |-> normalizeUnderstanding(parsed),
                      roadmap |-> Obj([phases |-> normalizePhases(parsed),
                                       resources |->
                                         normalizeResources(parsed)])]))

parseResponse(rawResponse) ==
  LET jsonMatch == MatchJson(Sanitize(rawResponse))
  IN IF jsonMatch = NoMatch THEN Throw("No JSON found in AI response")
     ELSE LET parsed == JSONparse(jsonMatch)
          IN IF ~parsed.ok THEN parsed ELSE normalizeParsed(parsed.value)

----------------------------------------------------------------------------
(* The iteration before it: the same defaults, no resources *)

normalizeParsedStable(parsed) ==
  LET missing == MissingField(parsed, RequiredFields)
      typeError == phasesError(parsed)
  IN IF missing # "" THEN Throw("Missing required field: " \o missing)
     ELSE IF typeError # "" THEN Throw(typeError)
     ELSE Return(Obj([meta |-> normalizeMeta(parsed),
                      understanding |-> normalizeUnderstanding(parsed),
                      roadmap |-> Obj([phases |-> normalizePhases(parsed)])]))

parseResponseStable(rawResponse) ==
  LET jsonMatch == MatchJson(Sanitize(rawResponse))
  IN IF jsonMatch = NoMatch THEN Throw("No JSON found in AI response")
     ELSE LET parsed == JSONparse(jsonMatch)
          IN IF ~parsed.ok THEN parsed
             ELSE normalizeParsedStable(parsed.value)

----------------------------------------------------------------------------
(* The strict iteration: the reply is validated and returned as parsed *)

SanitizeStrict(rawResponse) ==
  LET jsonText == TrimText(rawResponse)
  IN IF StartsWithFence(jsonText)
       THEN StripCloseFenceNl(StripOpenFenceNl(jsonText))
       ELSE jsonText

validateParsedStrict(parsed) ==
  LET missing == MissingField(parsed, RequiredFields)
      meta == Get(parsed, "meta")
      understanding == Get(parsed, "understanding")
      roadmap == Get(parsed, "roadmap")
  IN IF missing # "" THEN Throw("Missing required field: " \o missing)
     ELSE IF Nullish(meta) THEN Throw(NullRead("inferredCareer"))
     ELSE IF ~Truthy(Get(meta, "inferredCareer"))
             \/ ~IsNumber(Get(meta, "confidence"))
       THEN Throw("Invalid meta structure")
     ELSE IF Nullish(understanding) THEN Throw(NullRead("interests"))
     ELSE IF \/ ~IsArray(Get(understanding, "interests"))
             \/ ~Truthy(Get(understanding, "workStyle"))
             \/ ~Truthy(Get(understanding, "longTermGoal"))
             \/ ~IsNumber(Get(understanding, "hoursPerWeek"))
       THEN Throw("Invalid understanding structure")
     ELSE IF Nullish(roadmap) THEN Throw(NullRead("phases"))
     ELSE IF ~Truthy(Get(roadmap, "phases")) \/ ~IsArray(Get(roadmap, "phases"))
       THEN Throw("Invalid roadmap structure")
     ELSE Return(parsed)

parseResponseStrict(rawResponse) ==
  LET jsonMatch == MatchJson(SanitizeStrict(rawResponse))
  IN IF jsonMatch = NoMatch THEN Throw("No JSON found in AI response")
     ELSE LET parsed == JSONparse(jsonMatch)
          IN IF ~parsed.ok THEN parsed
             ELSE validateParsedStrict(parsed.value)

----------------------------------------------------------------------------
(* The first iteration (backend/app/api/forge/route.js) and the service    *)
(* of the same schema                                                      *)

LegacyRequiredFields == <<"title", "summary", "phases", "milestones", "skills">>

LegacyArrays == {"phases", "milestones", "skills", "resources"}

\* if (!Array.isArray(parsed.k)) parsed.k = [] for the four list fields
coerceArrays(parsed) ==
  Obj([k \in DOMAIN parsed.o \cup LegacyArrays |->
         IF k \in LegacyArrays THEN ArrayOrEmpty(Get(parsed, k))
         ELSE parsed.o[k]])

validateParsedLegacy(parsed) ==
  LET missing == MissingField(parsed, LegacyRequiredFields)
  IN IF missing # "" THEN Throw("Missing required field: " \o missing)
     ELSE Return(coerceArrays(parsed))

parseResponseLegacy(rawResponse) ==
  LET jsonMatch == MatchJson(rawResponse)
  IN IF jsonMatch = NoMatch THEN Throw("No JSON found in AI response")
     ELSE LET parsed == JSONparse(jsonMatch)
          IN IF ~parsed.ok THEN parsed
             ELSE validateParsedLegacy(parsed.value)

\* roadmapService.parseRoadmapResponse: the same, every error rethrown
parseRoadmapResponse(responseText) ==
  LET jsonMatch == MatchJson(responseText)
      inner ==
        IF jsonMatch = NoMatch THEN Throw("No JSON found in response")
        ELSE LET roadmap == JSONparse(jsonMatch)
             IN IF ~roadmap.ok THEN roadmap
                ELSE validateParsedLegacy(roadmap.value)
  IN IF inner.ok THEN inner
     ELSE Throw("Invalid roadmap response format: " \o inner.error)

----------------------------------------------------------------------------
(* roadmapService: the lazy client *)

Client == [t |-> "client"]

\* getGenAI(): the client to use, or the exception; what it leaves in genAI
\* a client constructed on every call, without the if (!genAI) test
getGenAIEveryCall(current, keySet) ==
  IF ~keySet
    THEN [ok |-> FALSE, genAI |-> current, reads |-> 1, built |-> 0,
          error |-> "GEMINI_API_KEY environment variable is not set"]
    ELSE [ok |-> TRUE, genAI |-> Client, reads |-> 1, built |-> 1]

getGenAI(current, keySet) ==
  IF current = Null
    THEN IF ~keySet
           THEN [ok |-> FALSE, genAI |-> Null, reads |-> 1, built |-> 0,
                 error |-> "GEMINI_API_KEY environment variable is not set"]
           ELSE [ok |-> TRUE, genAI |-> Client, reads |-> 1, built |-> 1]
    ELSE [ok |-> TRUE, genAI |-> current, reads |-> 0, built |-> 0]

----------------------------------------------------------------------------
(* The route handlers *)

Variants == {"coded", "stable", "strict", "legacy", "service"}

\* the iterations that answer from a catch of their own at every step
Guarded(v) == v \in {"coded", "stable"}

Envelope(status, success, data, error) ==
  [status |-> status,
   body |-> [success |-> success, data |-> data, error |-> error]]

\* the error member: { message, code } in the last iteration, a string before
ErrorValue(v, message, code) ==
  IF v = "coded"
    THEN Obj([message |-> Str(message), code |-> Str(code)])
    ELSE Str(message)

InvalidJsonResponse(v) ==
  Envelope(400, FALSE, Null,
           ErrorValue(v, "Invalid JSON in request body", "INVALID_INPUT"))

ValidationResponse(v, validation) ==
  Envelope(400, FALSE, Null,
           IF v = "coded"
             THEN Obj([message |-> validation.error,
                       code |-> Str("INVALID_INPUT")])
             ELSE validation.error)

\* the failed call left to the outer catch
GeminiFailedResponseForgeFailed(v) ==
  Envelope(500, FALSE, Null,
           ErrorValue(v, "Internal server error", "FORGE_FAILED"))

GeminiFailedResponse(v) ==
  Envelope(500, FALSE, Null,
           ErrorValue(v, "AI service temporarily unavailable", "AI_ERROR"))

\* the parse-failure response sent without a status (NextResponse's 200)
ParseFailedResponseNoStatus(v) ==
  Envelope(200, FALSE, Null,
           ErrorValue(v, "Failed to process AI response", "AI_ERROR"))

ParseFailedResponse(v) ==
  Envelope(500, FALSE, Null,
           ErrorValue(v, "Failed to process AI response", "AI_ERROR"))

UnexpectedResponse(v) ==
  Envelope(500, FALSE, Null,
           ErrorValue(v, "Internal server error", "FORGE_FAILED"))

\* the single catch of the unguarded iterations:
\* error: error.message || 'Internal server error'
CatchResponse(message) ==
  Envelope(500, FALSE, Null,
           Str(IF message # "" THEN message ELSE "Internal server error"))

SuccessResponse(roadmap) == Envelope(200, TRUE, roadmap, Null)

\* await request.json()
requestJson(input) ==
  IF input.t = "unparseable"
    THEN Throw("Unexpected token " \o input.at \o " in JSON")
    ELSE Return(input)

DestructureError ==
  "Cannot destructure property 'narrative' of 'body' as it is null."

\* the handler going on to the model without looking at the validation
EarlyResponseUnvalidated(v, input) ==
  LET body == requestJson(input) IN
  IF ~body.ok
    THEN << IF Guarded(v) THEN InvalidJsonResponse(v)
            ELSE CatchResponse(body.error) >>
  ELSE IF Nullish(body.value)
    THEN << IF Guarded(v) THEN UnexpectedResponse(v)
            ELSE CatchResponse(DestructureError) >>
  ELSE <<>>

\* the response that ends the request before the model is called, if any
EarlyResponse(v, input) ==
  LET body == requestJson(input) IN
  IF ~body.ok
    THEN << IF Guarded(v) THEN InvalidJsonResponse(v)
            ELSE CatchResponse(body.error) >>
  ELSE IF Nullish(body.value)
    THEN << IF Guarded(v) THEN UnexpectedResponse(v)
            ELSE CatchResponse(DestructureError) >>
  ELSE LET validation == validateNarrative(Get(body.value, "narrative")) IN
    IF ~validation.valid THEN << ValidationResponse(v, validation) >>
    ELSE <<>>

\* the validation the handler holds once the body is read
ValidationOf(input) ==
  LET body == requestJson(input) IN
  IF ~body.ok \/ Nullish(body.value) THEN <<>>
  ELSE << validateNarrative(Get(body.value, "narrative")) >>

\* the response when getGenAI throws
NoClientResponse(v, message) ==
  IF Guarded(v) THEN GeminiFailedResponse(v) ELSE CatchResponse(message)

\* the response when model.generateContent rejects with message
CallFailedResponse(v, message) ==
  IF Guarded(v) THEN GeminiFailedResponse(v)
  ELSE IF v = "service"
    THEN CatchResponse("Failed to generate roadmap: " \o message)
  ELSE CatchResponse("Gemini API call failed: " \o message)

\* the normaliser each iteration applies
Normalize(v, rawResponse) ==
  CASE v = "coded" -> parseResponse(rawResponse)
    [] v = "stable" -> parseResponseStable(rawResponse)
    [] v = "strict" -> parseResponseStrict(rawResponse)
    [] v = "legacy" -> parseResponseLegacy(rawResponse)
    [] v = "service" -> parseRoadmapResponse(rawResponse)

\* the response once the model has replied with rawResponse
ReplyResponse(v, rawResponse) ==
  LET roadmap == Normalize(v, rawResponse) IN
  IF roadmap.ok THEN SuccessResponse(roadmap.value)
  ELSE IF Guarded(v) THEN ParseFailedResponse(v)
  ELSE IF v = "service"
    THEN CatchResponse("Failed to generate roadmap: " \o roadmap.error)
  ELSE CatchResponse(roadmap.error)

----------------------------------------------------------------------------
(* Inputs of the validator *)

\* the minimum the handlers' doc comments and the test page announce
DOC_MIN_LENGTH == 30

MaxPad == 2

CoreLens ==
  {1, MIN_LENGTH - 1, MIN_LENGTH, MIN_LENGTH + 1, DOC_MIN_LENGTH - 1,
   DOC_MIN_LENGTH, MAX_LENGTH - 1, MAX_LENGTH, MAX_LENGTH + 1}

WsRun(k) == IF k = 0 THEN <<>> ELSE << [ws |-> TRUE, n |-> k] >>

CoreRun(k) == IF k = 0 THEN <<>> ELSE << [ws |-> FALSE, n |-> k] >>

NarrativeStrings ==
  { WsRun(a) \o CoreRun(c) \o WsRun(b) :
      a \in 0..MaxPad, c \in CoreLens \cup {0}, b \in 0..MaxPad }
  \cup
  { CoreRun(c) \o WsRun(a) \o CoreRun(1) :
      c \in {MIN_LENGTH - 3, MIN_LENGTH - 2, MAX_LENGTH - 2, MAX_LENGTH - 1},
      a \in 1..MaxPad }

NarrativeValues ==
  {Undefined, Null, Num(0), Num(42), Bool(FALSE), Bool(TRUE),
   Arr(<<>>), Obj(<<>>)}
  \cup { Text(s) : s \in NarrativeStrings }

----------------------------------------------------------------------------------------------------------------------------------------
(* Model replies: documents, and the texts that carry them *)

MaxPhases == 2

GoodMeta ==
  Obj([inferredCareer |-> Str("Platform Engineer"), confidence |-> Num(85)])

MetaValues ==
  {Null, Obj(<<>>), GoodMeta,
   Obj([inferredCareer |-> Num(7), confidence |-> Num(150)]),
   Obj([inferredCareer |-> Str(""), confidence |-> Str("high")]),
   Obj([inferredCareer |-> Str("SRE"), confidence |-> Num(0 - 5)]),
   Obj([inferredCareer |-> Str("SRE"), confidence |-> Num(0)]),
   Obj([inferredCareer |-> Str("SRE"), confidence |-> Num(100)])}

GoodUnderstanding ==
  Obj([interests |-> Arr(<< Str("infrastructure") >>),
       workStyle |-> Str("remote"),
       longTermGoal |-> Str("staff engineer"),
       hoursPerWeek |-> Num(10)])

UnderstandingValues ==
  {Null, Obj(<<>>), GoodUnderstanding,
   Obj([interests |-> Str("infrastructure"), workStyle |-> Num(1),
        longTermGoal |-> Str(""), hoursPerWeek |-> Num(0 - 3)]),
   Obj([interests |-> Arr(<< Num(1), Null >>), workStyle |-> Str("solo"),
        longTermGoal |-> Bool(TRUE), hoursPerWeek |-> Str("ten")]),
   Obj([interests |-> Arr(<<>>), hoursPerWeek |-> Num(0)])}

PhaseNoId == Obj([title |-> Str("Foundations")])

PhaseDupId ==
  Obj([id |-> Str("phase-1"), title |-> Str("Projects"),
       description |-> Str("Build things"),
       skills |-> Arr(<< Obj([name |-> Str("Go"), level |-> Str("expert")]),
                         Obj([name |-> Str("Kubernetes"),
                              level |-> Str("advanced")]),
                         Obj([level |-> Num(3)]) >>),
       tools |-> Arr(<< Str("kubectl") >>),
       projects |-> Str("none")])

PhaseOddTypes ==
  Obj([id |-> Num(9), title |-> Num(3), description |-> Arr(<<>>),
       skills |-> Arr(<< Str("Go") >>), tools |-> Arr(<< Num(1) >>),
       projects |-> Arr(<< Str("operator") >>)])

PhaseNullSkill ==
  Obj([id |-> Str("phase-1"), title |-> Str("Depth"),
       skills |-> Arr(<< Null >>)])

PhaseValues ==
  {Null, Num(5), PhaseNoId, PhaseDupId, PhaseOddTypes, PhaseNullSkill}

PhaseLists ==
  UNION { [1..n -> PhaseValues] : n \in 0..MaxPhases }

GoodResources ==
  Obj([learning |->
         Arr(<< Obj([skill |-> Str("Go"), type |-> Str("course"),
                     title |-> Str("Tour of Go"),
                     description |-> Str("The official tour")]),
                Obj([skill |-> Str("Go"), type |-> Str("book")]) >>),
       communities |->
         Arr(<< Obj([name |-> Str("Gophers"), platform |-> Str("slack"),
                     purpose |-> Str("help")]),
                Obj([name |-> Num(1), platform |-> Str("reddit")]) >>)])

ResourceValues ==
  {Null, Str("none"), Obj(<<>>), GoodResources,
   Obj([learning |-> Str("none"), communities |-> Null]),
   Obj([learning |-> Arr(<< Null >>), communities |-> Arr(<<>>)]),
   Obj([learning |-> Arr(<<>>), communities |-> Arr(<< Null >>)])}

GoodRoadmap ==
  Obj([phases |-> Arr(<< PhaseNoId, PhaseDupId >>),
       resources |-> GoodResources])

RoadmapValues ==
  {Null, Num(1), Obj(<<>>), Obj([phases |-> Str("none")])}
  \cup { Obj([phases |-> Arr(ps), resources |-> GoodResources]) :
           ps \in PhaseLists }
  \cup { Obj([phases |-> Arr(<< PhaseNoId >>), resources |-> rs]) :
           rs \in ResourceValues }
  \cup { Obj([phases |-> Arr(<< PhaseDupId >>)]) }

\* phases as the prompt asks for them
PhaseFoundations ==
  Obj([id |-> Str("phase-1"), title |-> Str("Foundations"),
       description |-> Str("Learn the basics"),
       skills |-> Arr(<< Obj([name |-> Str("Linux"),
                              level |-> Str("beginner")]) >>),
       tools |-> Arr(<< Str("bash") >>),
       projects |-> Arr(<< Str("Home lab") >>)])

PhaseDepth ==
  Obj([id |-> Str("phase-2"), title |-> Str("Depth"),
       description |-> Str("Run production systems"),
       skills |-> Arr(<< Obj([name |-> Str("Kubernetes"),
                              level |-> Str("advanced")]) >>),
       tools |-> Arr(<< Str("kubectl") >>),
       projects |-> Arr(<<>>)])

SchemaResources ==
  Obj([learning |->
         Arr(<< Obj([skill |-> Str("Linux"), type |-> Str("course"),
                     title |-> Str("Linux basics"),
                     description |-> Str("An introduction")]) >>),
       communities |->
         Arr(<< Obj([name |-> Str("r/devops"), platform |-> Str("reddit"),
                     purpose |-> Str("questions")]) >>)])

\* a reply that follows the schema of the prompt in every field
SchemaDoc ==
  [meta |-> GoodMeta, understanding |-> GoodUnderstanding,
   roadmap |-> Obj([phases |-> Arr(<< PhaseFoundations, PhaseDepth >>),
                    resources |-> SchemaResources])]

\* the same with the second phase's title an empty string
SchemaDocEmptyTitle ==
  [SchemaDoc EXCEPT
     !.roadmap = Obj([phases |->
                        Arr(<< PhaseFoundations,
                               Obj([PhaseDepth.o EXCEPT !.title = Str("")]) >>),
                      resources |-> SchemaResources])]

BaseDoc ==
  [meta |-> GoodMeta, understanding |-> GoodUnderstanding,
   roadmap |-> GoodRoadmap]

Restrict(doc, keys) == [k \in keys |-> doc[k]]

LegacyDoc ==
  [title |-> Str("Platform path"), summary |-> Str("Move to platform"),
   phases |-> Arr(<< Obj([phase |-> Num(1), name |-> Str("Start")]) >>),
   milestones |-> Str("none"), skills |-> Arr(<<>>)]

Docs ==
  { Restrict(BaseDoc, keys) : keys \in SUBSET DOMAIN BaseDoc }
  \cup { [BaseDoc EXCEPT !.meta = m] : m \in MetaValues }
  \cup { [BaseDoc EXCEPT !.understanding = u] : u \in UnderstandingValues }
  \cup { [BaseDoc EXCEPT !.roadmap = r] : r \in RoadmapValues }
  \cup { LegacyDoc,
         Restrict(LegacyDoc, {"title", "summary", "phases", "milestones"}),
         [k \in DOMAIN LegacyDoc \cup {"resources"} |->
            IF k = "resources" THEN Arr(<< Str("book") >>) ELSE LegacyDoc[k]] }

Tick == Ch("tick")

Nl == Ch("\n")

Sp == Ch(" ")

Prose == Ch("x")

JsonText(doc) == << Ch("{"), Members(doc), Ch("}") >>

\* what the model puts around the object
Surroundings ==
  { [pre |-> <<>>, post |-> <<>>],
    [pre |-> << Prose, Sp >>, post |-> <<>>],
    [pre |-> << Sp >>, post |-> << Nl, Prose >>],
    [pre |-> << Tick, Tick, Tick, Ch("json"), Nl >>,
     post |-> << Nl, Tick, Tick, Tick >>],
    [pre |-> << Tick, Tick, Tick, Sp, Ch("{") >>,
     post |-> << Ch("}"), Tick >>] }

Around(s, text) == s.pre \o text \o s.post

BrokenTexts ==
  { <<>>, << Prose >>, << Ch("{"), Prose, Ch("}") >>,
    << Ch("}"), Sp, Ch("{") >>,
    JsonText(BaseDoc) \o << Sp >> \o JsonText(BaseDoc),
    << Tick, Tick, Tick, Ch("json"), Nl, Tick, Tick, Tick >> }

ReplyTexts ==
  { Around(s, JsonText(doc)) : s \in Surroundings, doc \in Docs }
  \cup BrokenTexts

\* markdown code fences put around a whole reply
Fences ==
  { [pre |-> << Tick, Tick, Tick, Nl >>, post |-> << Nl, Tick, Tick, Tick >>],
    [pre |-> << Tick, Tick, Tick, Ch("json"), Nl >>,
     post |-> << Nl, Tick, Tick, Tick >>],
    [pre |-> << Sp, Tick, Tick, Tick, Ch("json"), Sp, Nl >>,
     post |-> << Sp, Tick, Tick, Tick, Nl >>],
    [pre |-> << Tick, Tick, Tick, Tick, Ch("json"), Nl >>,
     post |-> << Nl, Tick, Tick, Tick, Tick >>],
    [pre |-> << Tick, Tick, Tick, Ch("json") >>,
     post |-> << Tick, Tick, Tick, Sp, Tick >>] }

----------------------------------------------------------------------------
(* The validator applied to one drawn value *)

InitValidate ==
  /\ vIn \in NarrativeValues
  /\ vOut = <<>>
  /\ pIn = <<>> /\ pOut = <<>>
  /\ variant = "coded" /\ apiKey = TRUE /\ genAI = Null
  /\ envReads = 0 /\ built = 0
  /\ req = <<>>

Validate ==
  /\ vOut = <<>>
  /\ vOut' = << validateNarrative(vIn) >>
  /\ UNCHANGED <<vIn, pIn, pOut, handlerVars>>

NextValidate == Validate

SpecValidate == InitValidate /\ [][NextValidate]_vars

----------------------------------------------------------------------------
(* The normalisers applied to one drawn reply, bare and inside a fence *)

InitNormalize ==
  /\ pIn \in ReplyTexts
  /\ pOut = <<>>
  /\ vIn = Undefined /\ vOut = <<>>
  /\ variant = "coded" /\ apiKey = TRUE /\ genAI = Null
  /\ envReads = 0 /\ built = 0
  /\ req = <<>>

\* JSON.stringify: a member whose value is undefined is left out, an
\* undefined list element is written as null
RECURSIVE Serialized(_)
Serialized(v) ==
  IF v.t = "obj"
    THEN Obj([k \in { m \in DOMAIN v.o : v.o[m] # Undefined } |->
                Serialized(v.o[k])])
  ELSE IF v.t = "arr"
    THEN Arr([i \in 1..Len(v.a) |->
                IF v.a[i] = Undefined THEN Null ELSE Serialized(v.a[i])])
  ELSE v

JSONstringify(v) == JsonText(Serialized(v).o)

\* the returned document serialised and normalised once more
Renormalize(v, result) ==
  IF result.ok THEN Normalize(v, JSONstringify(result.value)) ELSE result

NormalizeReply(v, fence) ==
  /\ pOut = <<>>
  /\ pOut' = << [v |-> v, fence |-> fence,
                 bare |-> Normalize(v, pIn),
                 fenced |-> Normalize(v, Around(fence, pIn)),
                 again |-> Renormalize(v, Normalize(v, pIn)),
                 response |-> ReplyResponse(v, pIn)] >>
  /\ UNCHANGED <<pIn, vIn, vOut, handlerVars>>

NextNormalize == \E v \in Variants, fence \in Fences : NormalizeReply(v, fence)

SpecNormalize == InitNormalize /\ [][NextNormalize]_vars

----------------------------------------------------------------------------
(* The deployed route under requests *)

NumRequests == 2

Requests == 1..NumRequests

Unparseable == [t |-> "unparseable", at |-> "n"]

HandlerNarratives ==
  {Num(42), Text(<<>>), Text(CoreRun(MIN_LENGTH - 1)),
   Text(CoreRun(MIN_LENGTH + 5)), Text(CoreRun(DOC_MIN_LENGTH)),
   Text(CoreRun(MAX_LENGTH + 1))}

\* what a client may send as the body
HandlerBodies ==
  {Unparseable, Null, Num(7), Arr(<<>>), Obj(<<>>)}
  \cup { Obj([narrative |-> n]) : n \in HandlerNarratives }

HandlerReplies ==
  { JsonText(BaseDoc),
    << Tick, Tick, Tick, Ch("json"), Nl >> \o JsonText(SchemaDoc)
      \o << Nl, Tick, Tick, Tick >>,
    JsonText(SchemaDocEmptyTitle),
    JsonText(Restrict(BaseDoc, {"understanding", "roadmap"})),
    JsonText([BaseDoc EXCEPT !.roadmap = Obj([phases |-> Arr(<< Null >>)])]),
    JsonText(LegacyDoc),
    << Prose >>,
    << Ch("{"), Prose, Ch("}") >> }

\* messages of the exceptions model.generateContent rejects with
UpstreamErrors == {"fetch failed", "quota exceeded"}

Idle ==
  [method |-> "none", pc |-> "idle", input |-> Undefined, validation |-> <<>>,
   rawResponse |-> <<>>, calls |-> 0, responses |-> <<>>]

Init ==
  /\ variant \in Variants
  /\ apiKey \in BOOLEAN
  /\ genAI = Null
  /\ envReads = 0
  /\ built = 0
  /\ req = [r \in Requests |-> Idle]
  /\ vIn = Undefined /\ vOut = <<>>
  /\ pIn = <<>> /\ pOut = <<>>

\* a POST arrives; the handler starts and awaits request.json()
Receive(r, input) ==
  /\ req[r].pc = "idle"
  /\ req' = [req EXCEPT ![r].method = "POST", ![r].pc = "reading",
                        ![r].input = input]
  /\ UNCHANGED <<variant, apiKey, genAI, envReads, built, pureVars>>

Respond(r, response, validation) ==
  req' = [req EXCEPT ![r].pc = "done",
                     ![r].validation = validation,
                     ![r].responses = Append(@, response)]

\* POST from the body being read to its first response or to the pending
\* model.generateContent
POSTBody(r) ==
  /\ req[r].pc = "reading"
  /\ LET early == EarlyResponse(variant, req[r].input)
         validation == ValidationOf(req[r].input)
         ai == getGenAI(genAI, apiKey)
     IN IF early # <<>>
          THEN /\ Respond(r, early[1], validation)
               /\ UNCHANGED <<genAI, envReads, built>>
          ELSE /\ genAI' = ai.genAI
               /\ envReads' = envReads + ai.reads
               /\ built' = built + ai.built
               /\ IF ai.ok
                    THEN req' = [req EXCEPT ![r].pc = "awaiting",
                                            ![r].validation = validation,
                                            ![r].calls = @ + 1]
                    ELSE Respond(r, NoClientResponse(variant, ai.error),
                                 validation)
  /\ UNCHANGED <<variant, apiKey, pureVars>>

\* the model replies: normalisation and the response
POSTReply(r, rawResponse) ==
  /\ req[r].pc = "awaiting"
  /\ req' = [req EXCEPT ![r].pc = "done",
                        ![r].rawResponse = << Return(rawResponse) >>,
                        ![r].responses =
                          Append(@, ReplyResponse(variant, rawResponse))]
  /\ UNCHANGED <<variant, apiKey, genAI, envReads, built, pureVars>>

\* the call rejects, or reading the reply's text throws
POSTCallFailed(r, message) ==
  /\ req[r].pc = "awaiting"
  /\ req' = [req EXCEPT ![r].pc = "done",
                        ![r].rawResponse = << Throw(message) >>,
                        ![r].responses =
                          Append(@, CallFailedResponse(variant, message))]
  /\ UNCHANGED <<variant, apiKey, genAI, envReads, built, pureVars>>

\* the GET response with the status option left out
MethodNotAllowedNoStatus ==
  [status |-> 200,
   body |-> [success |-> FALSE,
             error |-> Str("Method not allowed. Use POST instead.")]]

\* { success: false, error } with status 405; the body has no data member
MethodNotAllowedResponse ==
  [status |-> 405,
   body |-> [success |-> FALSE,
             error |-> Str("Method not allowed. Use POST instead.")]]

\* GET takes no request argument and returns at once
GET(r) ==
  /\ req[r].pc = "idle"
  /\ req' = [req EXCEPT ![r].method = "GET", ![r].pc = "done",
                        ![r].responses = Append(@, MethodNotAllowedResponse)]
  /\ UNCHANGED <<variant, apiKey, genAI, envReads, built, pureVars>>

Next ==
  \E r \in Requests :
    \/ \E input \in HandlerBodies : Receive(r, input)
    \/ GET(r)
    \/ POSTBody(r)
    \/ \E rawResponse \in HandlerReplies : POSTReply(r, rawResponse)
    \/ \E message \in UpstreamErrors : POSTCallFailed(r, message)

Spec == Init /\ [][Next]_vars

\* the promise of model.generateContent settles: it resolves with a reply or
\* rejects
Settle(r) ==
  \/ \E rawResponse \in HandlerReplies : POSTReply(r, rawResponse)
  \/ \E message \in UpstreamErrors : POSTCallFailed(r, message)

\* the handlers under the event loop: a handler whose awaited promise has
\* settled is resumed, and every pending request.json() and
\* generateContent promise settles
LiveSpec ==
  /\ Spec
  /\ \A r \in Requests : WF_vars(POSTBody(r)) /\ WF_vars(Settle(r))

----------------------------------------------------------------------------
(* Properties of validateNarrative (SpecValidate) *)

TrimmedLength(v) == RunsLength(Trim(v.runs))

SubmittedLength(v) == RunsLength(v.runs)

\* C1: validateNarrative(v) is valid exactly when v is a string whose trimmed
\* length is between 10 and 5000 inclusive; valid comes with error = null,
\* invalid with a non-null reason.
C1ValidIff ==
  vOut # <<>> =>
    LET r == vOut[1]
        inRange == /\ vIn.t = "str"
                   /\ TrimmedLength(vIn) >= 10
                   /\ TrimmedLength(vIn) <= 5000
    IN /\ r.valid <=> inRange
       /\ r.valid => r.error = Null
       /\ ~r.valid => r.error.t = "str" /\ r.error.s # ""

\* a padded string at the upper limit has been accepted
C1Witness ==
  /\ vOut # <<>>
  /\ vIn.t = "str"
  /\ TrimmedLength(vIn) = 5000
  /\ SubmittedLength(vIn) > 5000
  /\ vOut[1].valid
  /\ vOut[1].error = Null

----------------------------------------------------------------------------
(* Properties of the route handler (Spec) *)

Sent(r) == req[r].responses[1]

Answered(r) == req[r].pc = "done" /\ req[r].responses # <<>>

HasNarrativeText(input) ==
  /\ input.t = "obj"
  /\ "narrative" \in DOMAIN input.o
  /\ IsText(input.o.narrative)

UsableNarrative(input) ==
  /\ HasNarrativeText(input)
  /\ TrimmedLength(input.o.narrative) >= 10
  /\ TrimmedLength(input.o.narrative) <= 5000

ErrorCode(response) ==
  IF response.body.error.t = "obj" THEN response.body.error.o.code.s ELSE ""

ErrorMessage(response) ==
  IF response.body.error.t = "obj"
    THEN response.body.error.o.message.s
    ELSE response.body.error.s

\* C3: a POST whose narrative has fewer than 30 characters is rejected with
\* status 400 and never reaches the model call.
C3MinThirty ==
  \A r \in Requests :
    (/\ req[r].pc \in {"awaiting", "done"}
     /\ HasNarrativeText(req[r].input)
     /\ SubmittedLength(req[r].input.o.narrative) < 30)
    => /\ req[r].calls = 0
       /\ req[r].pc = "done" => Sent(r).status = 400

\* C4: every POST ends in exactly one response with status 200, 400 or 500;
\* 200 carries success, a document and no error and comes only after
\* validation passed, the model replied and normalisation succeeded; 400 and
\* 500 carry success = false, data = null and an error.
C4Envelope ==
  \A r \in Requests :
    LET rq == req[r] IN
    /\ Len(rq.responses) <= 1
    /\ rq.pc = "done" <=> Len(rq.responses) = 1
    /\ (rq.responses # <<>> /\ rq.method = "POST") =>
         LET response == rq.responses[1] IN
         /\ response.status \in {200, 400, 500}
         /\ response.status = 200 =>
              /\ response.body.success
              /\ response.body.data.t = "obj"
              /\ response.body.error = Null
              /\ rq.validation # <<>> /\ rq.validation[1].valid
              /\ rq.calls = 1
              /\ rq.rawResponse # <<>> /\ rq.rawResponse[1].ok
              /\ Normalize(variant, rq.rawResponse[1].value)
                   = Return(response.body.data)
         /\ response.status \in {400, 500} =>
              /\ ~response.body.success
              /\ response.body.data = Null
              /\ response.body.error.t \in {"str", "obj"}
              /\ ErrorMessage(response) # ""

\* a request answered 200 with the normalised document
C4Witness ==
  \E r \in Requests :
    /\ Answered(r)
    /\ Sent(r).status = 200
    /\ Sent(r).body.success
    /\ Sent(r).body.data.t = "obj"
    /\ \E q \in Requests : Answered(q) /\ Sent(q).status = 500

\* C5: in every iteration of the handler a body that is not JSON is answered
\* 400 (INVALID_INPUT where codes exist), never 500, without a model call.
C5BadBodyIs400 ==
  \A r \in Requests :
    (Answered(r) /\ req[r].input.t = "unparseable")
    => /\ Sent(r).status = 400
       /\ req[r].calls = 0
       /\ variant = "coded" => ErrorCode(Sent(r)) = "INVALID_INPUT"

\* C6: in the iteration with error codes, a body that is JSON but carries no
\* usable narrative is answered 400 INVALID_INPUT, never 500 FORGE_FAILED.
C6NoNarrativeIs400 ==
  \A r \in Requests :
    (/\ variant = "coded"
     /\ req[r].method = "POST"
     /\ Answered(r)
     /\ req[r].input.t # "unparseable"
     /\ ~UsableNarrative(req[r].input))
    => /\ Sent(r).status = 400
       /\ ErrorCode(Sent(r)) = "INVALID_INPUT"

FixedMessages ==
  {"AI service temporarily unavailable", "Failed to process AI response",
   "Internal server error"}

CallFailedFor(r) ==
  Answered(r) /\ req[r].rawResponse # <<>> /\ ~req[r].rawResponse[1].ok

NormalizationFailedFor(r) ==
  /\ Answered(r)
  /\ req[r].rawResponse # <<>>
  /\ req[r].rawResponse[1].ok
  /\ ~Normalize(variant, req[r].rawResponse[1].value).ok

\* C7: two requests with the same body whose model calls both fail, or whose
\* replies both fail normalisation, get the same response, and its message is
\* one of a fixed set of literals.
C7NoLeak ==
  \A r1, r2 \in Requests :
    (/\ req[r1].input = req[r2].input
     /\ \/ CallFailedFor(r1) /\ CallFailedFor(r2)
        \/ NormalizationFailedFor(r1) /\ NormalizationFailedFor(r2))
    => /\ Sent(r1) = Sent(r2)
       /\ ErrorMessage(Sent(r1)) \in FixedMessages

----------------------------------------------------------------------------
(* Properties of the normalisers (SpecNormalize) *)

\* the object the reply text carries, as every iteration extracts it
ReplyObject(text) ==
  LET jsonMatch == MatchJson(text)
  IN IF jsonMatch = NoMatch THEN Throw("no object") ELSE JSONparse(jsonMatch)

\* C8: for every reply the normaliser accepts, the reply wrapped in a markdown
\* code fence (with or without the json tag, surrounding whitespace or stray
\* backticks) normalises to the same document.
C8FenceInvariant ==
  (pOut # <<>> /\ pOut[1].bare.ok) => pOut[1].fenced = pOut[1].bare

\* an accepted reply inside a fence with a stray backtick gave the same
\* document in the last iteration
C8Witness ==
  /\ pOut # <<>>
  /\ pOut[1].v = "coded"
  /\ pOut[1].bare.ok
  /\ pOut[1].fenced = pOut[1].bare
  /\ Len(pOut[1].fence.pre) >= 4
  /\ pOut[1].fence.pre[4] = Tick

LacksRequiredKey(text) ==
  /\ ReplyObject(text).ok
  /\ \E k \in {"meta", "understanding", "roadmap"} :
       k \notin DOMAIN ReplyObject(text).value.o

FirstMissingKey(text) ==
  LET keys == DOMAIN ReplyObject(text).value.o
  IN IF "meta" \notin keys THEN "meta"
     ELSE IF "understanding" \notin keys THEN "understanding"
     ELSE "roadmap"

MissingFieldMessages ==
  [meta |-> "Missing required field: meta",
   understanding |-> "Missing required field: understanding",
   roadmap |-> "Missing required field: roadmap"]

DefaultMeta ==
  Obj([inferredCareer |-> Str("Unknown Career Path"), confidence |-> Num(60)])

ExpectedPhaseIds == <<"phase-1", "phase-2", "phase-3", "phase-4">>

ExpectedPhaseTitles == <<"Phase 1", "Phase 2", "Phase 3", "Phase 4">>

SourcePhaseList(text) == Get(Get(ReplyObject(text).value, "roadmap"), "phases")

HasPhaseList(text) ==
  /\ ReplyObject(text).ok
  /\ ~Nullish(Get(ReplyObject(text).value, "roadmap"))
  /\ IsArray(SourcePhaseList(text))

\* C10: when roadmap.phases is a list of n phases, the document the
\* normaliser returns holds exactly n phases, in input order, with ids
\* "phase-1" .. "phase-n" by position, pairwise distinct, whatever ids the
\* source gave.
C10PhaseIds ==
  (/\ pOut # <<>>
   /\ pOut[1].v \in {"coded", "stable"}
   /\ pOut[1].bare.ok
   /\ HasPhaseList(pIn)) =>
    LET src == SourcePhaseList(pIn).a
        out == pOut[1].bare.value.o.roadmap.o.phases.a
    IN /\ Len(out) = Len(src)
       /\ \A i \in 1..Len(out) :
            /\ out[i].o.id = Str(ExpectedPhaseIds[i])
            /\ out[i].o.title =
                 IF Truthy(Get(src[i], "title")) THEN Get(src[i], "title")
                 ELSE Str(ExpectedPhaseTitles[i])
       /\ \A i, j \in 1..Len(out) : i # j => out[i].o.id # out[j].o.id

\* two phases, the first without an id and the second claiming "phase-1",
\* came out as phase-1 and phase-2
C10Witness ==
  /\ pOut # <<>>
  /\ pOut[1].v = "coded"
  /\ pOut[1].bare.ok
  /\ HasPhaseList(pIn)
  /\ SourcePhaseList(pIn).a = << PhaseNoId, PhaseDupId >>
  /\ pOut[1].bare.value.o.roadmap.o.phases.a[2].o.id = Str("phase-2")

----------------------------------------------------------------------------
(* Properties of the returned document (SpecNormalize) *)

Returned == pOut # <<>> /\ pOut[1].bare.ok

\* the parsed reply and the parts of the returned document
Source == ReplyObject(pIn).value

SourceRoadmap == Get(Source, "roadmap")

SourceResources == Get(SourceRoadmap, "resources")

OutRoadmap == pOut[1].bare.value.o.roadmap.o

OutPhases == OutRoadmap.phases.a

\* a source value kept when it is one of the allowed literals, else the
\* fallback
KeptOr(v, allowed, fallback) ==
  IF v \in { Str(a) : a \in allowed } THEN v ELSE Str(fallback)

ElementOf(list, i) ==
  IF IsArray(list) /\ i <= Len(list.a) THEN list.a[i] ELSE Undefined

\* C11: in every returned document each skill level, learning resource type
\* and community platform is the source value when that is one of the
\* allowed literals, and otherwise the fallback beginner, documentation or
\* forum.
C11Literals ==
  (Returned /\ pOut[1].v \in {"coded", "stable"}) =>
    /\ \A i \in 1..Len(OutPhases) :
         \A j \in 1..Len(OutPhases[i].o.skills.a) :
           LET level == OutPhases[i].o.skills.a[j].o.level
               given == Get(ElementOf(Get(ElementOf(Get(SourceRoadmap, "phases"),
                                                    i), "skills"), j), "level")
           IN /\ level = KeptOr(given, {"beginner", "intermediate", "advanced"},
                                "beginner")
              /\ level.s \in {"beginner", "intermediate", "advanced"}
    /\ pOut[1].v = "coded" =>
         /\ \A i \in 1..Len(OutRoadmap.resources.o.learning.a) :
              LET type == OutRoadmap.resources.o.learning.a[i].o.type
                  given == Get(ElementOf(Get(SourceResources, "learning"), i),
                               "type")
              IN /\ type = KeptOr(given, {"youtube", "documentation", "course"},
                                  "documentation")
                 /\ type.s \in {"youtube", "documentation", "course"}
         /\ \A i \in 1..Len(OutRoadmap.resources.o.communities.a) :
              LET platform == OutRoadmap.resources.o.communities.a[i].o.platform
                  given == Get(ElementOf(Get(SourceResources, "communities"), i),
                               "platform")
              IN /\ platform = KeptOr(given, {"discord", "reddit", "forum"},
                                      "forum")
                 /\ platform.s \in {"discord", "reddit", "forum"}

\* the level "expert" came out as beginner beside a kept "advanced", a type
\* "book" as documentation and a platform "slack" as forum
C11Witness ==
  /\ Returned
  /\ pOut[1].v = "coded"
  /\ Get(SourceRoadmap, "phases") = Arr(<< PhaseNoId, PhaseDupId >>)
  /\ SourceResources = GoodResources
  /\ OutPhases[2].o.skills.a[1].o.level = Str("beginner")
  /\ OutPhases[2].o.skills.a[2].o.level = Str("advanced")
  /\ OutRoadmap.resources.o.learning.a[2].o.type = Str("documentation")
  /\ OutRoadmap.resources.o.communities.a[1].o.platform = Str("forum")

SourcePhases == Get(SourceRoadmap, "phases")

HasRequiredKeys ==
  /\ ReplyObject(pIn).ok
  /\ IF pOut[1].v = "legacy"
       THEN {"title", "summary", "phases", "milestones", "skills"}
              \subseteq DOMAIN Source.o
       ELSE {"meta", "understanding", "roadmap"} \subseteq DOMAIN Source.o

NotAList(v) == ~IsArray(v)

\* a reply in which some field expected to be a list is absent or not an
\* array, or hangs off a parent that is null or absent
SomeListMissing ==
  IF pOut[1].v = "legacy"
    THEN \E k \in {"phases", "milestones", "skills", "resources"} :
           NotAList(Get(Source, k))
    ELSE \/ NotAList(Get(Get(Source, "understanding"), "interests"))
         \/ NotAList(SourcePhases)
         \/ /\ IsArray(SourcePhases)
            /\ \E i \in 1..Len(SourcePhases.a) :
                 \E k \in {"skills", "tools", "projects"} :
                   NotAList(Get(SourcePhases.a[i], k))
         \/ /\ pOut[1].v = "coded"
            /\ \E k \in {"learning", "communities"} :
                 NotAList(Get(SourceResources, k))

\* every such field is the empty list in the returned document
ListsCoerced ==
  LET out == pOut[1].bare.value.o
  IN IF pOut[1].v = "legacy"
       THEN \A k \in {"phases", "milestones", "skills", "resources"} :
              NotAList(Get(Source, k)) => out[k] = Arr(<<>>)
       ELSE /\ NotAList(Get(Get(Source, "understanding"), "interests")) =>
                 out.understanding.o.interests = Arr(<<>>)
            /\ NotAList(SourcePhases) => out.roadmap.o.phases = Arr(<<>>)
            /\ \A i \in 1..Len(OutPhases) :
                 \A k \in {"skills", "tools", "projects"} :
                   NotAList(Get(ElementOf(SourcePhases, i), k)) =>
                     OutPhases[i].o[k] = Arr(<<>>)
            /\ pOut[1].v = "coded" =>
                 \A k \in {"learning", "communities"} :
                   NotAList(Get(SourceResources, k)) =>
                     out.roadmap.o.resources.o[k] = Arr(<<>>)

\* C12 as stated: on every parsed reply with the required top-level keys in
\* which a list field is absent or not an array, or its parent is null or
\* absent, the normaliser returns a document with that field empty instead
\* of failing.
C12NeverFails ==
  (/\ pOut # <<>>
   /\ pOut[1].v \in {"coded", "stable", "legacy"}
   /\ HasRequiredKeys
   /\ SomeListMissing) =>
    pOut[1].bare.ok /\ ListsCoerced

NullElementIn(list) ==
  IsArray(list) /\ \E i \in 1..Len(list.a) : list.a[i] = Null

\* a null among the elements the normaliser maps over: the phases, a
\* phase's skills, the learning resources, the communities
MappedNull ==
  /\ pOut[1].v # "legacy"
  /\ \/ NullElementIn(SourcePhases)
     \/ /\ IsArray(SourcePhases)
        /\ \E i \in 1..Len(SourcePhases.a) :
             NullElementIn(Get(SourcePhases.a[i], "skills"))
     \/ /\ pOut[1].v = "coded"
        /\ \E k \in {"learning", "communities"} :
             NullElementIn(Get(SourceResources, k))

\* C12 amended: on every parsed reply with the required top-level keys the
\* normaliser returns a document in which each list field that was absent,
\* not an array, or under a null, absent or primitive understanding, roadmap,
\* resources or phase object is the empty list, unless a mapped list holds a
\* null element: a null phase, skill, learning resource or community makes
\* the normalisation fail as a whole.
C12ListsCoerced ==
  (/\ pOut # <<>>
   /\ pOut[1].v \in {"coded", "stable", "legacy"}
   /\ HasRequiredKeys) =>
    IF MappedNull THEN ~pOut[1].bare.ok
    ELSE pOut[1].bare.ok /\ ListsCoerced

\* a phase without skills, tools or projects and resources whose learning
\* is a string and communities null came out with five empty lists
C12Witness ==
  /\ Returned
  /\ pOut[1].v = "coded"
  /\ SourcePhases = Arr(<< PhaseNoId >>)
  /\ SourceResources = Obj([learning |-> Str("none"), communities |-> Null])
  /\ OutPhases[1].o.skills = Arr(<<>>)
  /\ OutPhases[1].o.tools = Arr(<<>>)
  /\ OutPhases[1].o.projects = Arr(<<>>)
  /\ OutRoadmap.resources.o.learning = Arr(<<>>)
  /\ OutRoadmap.resources.o.communities = Arr(<<>>)

IsString(v) == v.t = "str"

StringList(v) == IsArray(v) /\ \A i \in 1..Len(v.a) : IsString(v.a[i])

AllStrings(v, keys) ==
  /\ v.t = "obj"
  /\ DOMAIN v.o = keys
  /\ \A k \in keys : IsString(v.o[k])

\* the schema of the document the route promises to the frontend
FullSchema(doc) ==
  /\ IsString(doc.o.meta.o.inferredCareer)
  /\ IsNumber(doc.o.meta.o.confidence)
  /\ StringList(doc.o.understanding.o.interests)
  /\ IsString(doc.o.understanding.o.workStyle)
  /\ IsString(doc.o.understanding.o.longTermGoal)
  /\ IsNumber(doc.o.understanding.o.hoursPerWeek)
  /\ \A i \in 1..Len(doc.o.roadmap.o.phases.a) :
       LET phase == doc.o.roadmap.o.phases.a[i].o
       IN /\ IsString(phase.id)
          /\ IsString(phase.title)
          /\ IsString(phase.description)
          /\ IsArray(phase.skills)
          /\ \A j \in 1..Len(phase.skills.a) :
               AllStrings(phase.skills.a[j], {"name", "level"})
          /\ StringList(phase.tools)
          /\ StringList(phase.projects)
  /\ \A i \in 1..Len(doc.o.roadmap.o.resources.o.learning.a) :
       AllStrings(doc.o.roadmap.o.resources.o.learning.a[i],
                  {"skill", "type", "title", "description"})
  /\ \A i \in 1..Len(doc.o.roadmap.o.resources.o.communities.a) :
       AllStrings(doc.o.roadmap.o.resources.o.communities.a[i],
                  {"name", "platform", "purpose"})

\* C13: whenever the most complete normaliser returns a document, the
\* document satisfies the full schema whatever JSON values the reply held:
\* the text fields are strings, interests, tools and projects are lists of
\* strings, confidence and hoursPerWeek are numbers, and every skill,
\* learning resource and community has all its fields present as strings.
C13FullSchema ==
  (Returned /\ pOut[1].v = "coded") => FullSchema(pOut[1].bare.value)

\* the nearest value of lo..hi
Clamped(n, lo, hi) == IF n < lo THEN lo ELSE IF n > hi THEN hi ELSE n

\* C14: in every returned document meta.confidence is a number in [0, 100]
\* and understanding.hoursPerWeek a number that is at least 0: a numeric
\* source value inside the range is kept, one outside is clamped to the
\* nearest bound, and a missing or non-numeric one becomes 60 for the
\* confidence and 20 for the hours.
C14Clamped ==
  (Returned /\ pOut[1].v \in {"coded", "stable"}) =>
    LET given == Get(Get(Source, "meta"), "confidence")
        confidence == pOut[1].bare.value.o.meta.o.confidence
        asked == Get(Get(Source, "understanding"), "hoursPerWeek")
        hours == pOut[1].bare.value.o.understanding.o.hoursPerWeek
    IN /\ IsNumber(confidence) /\ confidence.n \in 0..100
       /\ confidence = IF IsNumber(given) THEN Num(Clamped(given.n, 0, 100))
                       ELSE Num(60)
       /\ IsNumber(hours) /\ hours.n >= 0
       /\ hours = IF ~IsNumber(asked) THEN Num(20)
                  ELSE IF asked.n < 0 THEN Num(0) ELSE asked

\* a confidence of -5 came out as 0 in the last iteration
C14Witness ==
  /\ Returned
  /\ pOut[1].v = "coded"
  /\ Get(Get(Source, "meta"), "confidence") = Num(0 - 5)
  /\ pOut[1].bare.value.o.meta.o.confidence = Num(0)
  /\ pOut[1].bare.value.o.understanding.o.hoursPerWeek = Num(10)

----------------------------------------------------------------------------
(* Properties of the handlers (Spec), continued *)

\* C16: a GET is always answered 405 with success = false, in the one step
\* in which it arrives: no body is read, nothing is validated, the client is
\* neither read nor constructed and no model call is made, and nothing
\* happens to the request afterwards.
C16GetIs405 ==
  [][\A r \in Requests :
       /\ (req[r].method # "GET" /\ req'[r].method = "GET") =>
            /\ req'[r].pc = "done"
            /\ Len(req'[r].responses) = 1
            /\ req'[r].responses[1].status = 405
            /\ ~req'[r].responses[1].body.success
            /\ req'[r].responses[1].body.error.t = "str"
            /\ req'[r].input = Undefined
            /\ req'[r].validation = <<>>
            /\ req'[r].calls = 0
            /\ req'[r].rawResponse = <<>>
            /\ UNCHANGED <<genAI, envReads, built>>
       /\ req[r].method = "GET" => req'[r] = req[r]]_vars

\* a GET was answered 405 while a POST had the client constructed
C16Witness ==
  \E r, q \in Requests :
    /\ req[r].method = "GET"
    /\ Sent(r).status = 405
    /\ req[q].method = "POST"
    /\ req[q].calls = 1
    /\ genAI = Client

\* the parsed object follows the schema of the prompt: every member present
\* with the type the schema gives it
Conforms(doc) ==
  LET meta == Get(doc, "meta")
      understanding == Get(doc, "understanding")
      phases == Get(Get(doc, "roadmap"), "phases")
      resources == Get(Get(doc, "roadmap"), "resources")
  IN /\ IsString(Get(meta, "inferredCareer"))
     /\ IsNumber(Get(meta, "confidence"))
     /\ Get(meta, "confidence").n \in 0..100
     /\ StringList(Get(understanding, "interests"))
     /\ IsString(Get(understanding, "workStyle"))
     /\ IsString(Get(understanding, "longTermGoal"))
     /\ IsNumber(Get(understanding, "hoursPerWeek"))
     /\ Get(understanding, "hoursPerWeek").n >= 0
     /\ IsArray(phases)
     /\ \A i \in 1..Len(phases.a) :
          /\ \A k \in {"id", "title", "description"} :
               IsString(Get(phases.a[i], k))
          /\ IsArray(Get(phases.a[i], "skills"))
          /\ \A j \in 1..Len(Get(phases.a[i], "skills").a) :
               LET skill == Get(phases.a[i], "skills").a[j]
               IN /\ IsString(Get(skill, "name"))
                  /\ Get(skill, "level")
                       \in { Str(l) : l \in {"beginner", "intermediate",
                                             "advanced"} }
          /\ StringList(Get(phases.a[i], "tools"))
          /\ StringList(Get(phases.a[i], "projects"))
     /\ IsArray(Get(resources, "learning"))
     /\ \A i \in 1..Len(Get(resources, "learning").a) :
          AllStrings(Get(resources, "learning").a[i],
                     {"skill", "type", "title", "description"})
     /\ IsArray(Get(resources, "communities"))
     /\ \A i \in 1..Len(Get(resources, "communities").a) :
          AllStrings(Get(resources, "communities").a[i],
                     {"name", "platform", "purpose"})

\* request r passed validation and the model answered it with a well-formed
\* reply that follows the schema
ConformingReplyFor(r) ==
  /\ req[r].method = "POST"
  /\ Answered(r)
  /\ req[r].validation # <<>> /\ req[r].validation[1].valid
  /\ req[r].rawResponse # <<>> /\ req[r].rawResponse[1].ok
  /\ ReplyObject(req[r].rawResponse[1].value).ok
  /\ Conforms(ReplyObject(req[r].rawResponse[1].value).value)

GivenPhases(r) ==
  Get(Get(ReplyObject(req[r].rawResponse[1].value).value, "roadmap"),
      "phases").a

\* C15 as stated: for every well-formed, schema-conforming reply to a valid
\* narrative the handler answers success = true with as many phases as the
\* reply, with the same titles in the same order.
C15SameTitles ==
  \A r \in Requests :
    (variant \in {"coded", "stable"} /\ ConformingReplyFor(r)) =>
      /\ Sent(r).status = 200
      /\ Sent(r).body.success
      /\ LET out == Sent(r).body.data.o.roadmap.o.phases.a
         IN /\ Len(out) = Len(GivenPhases(r))
            /\ \A i \in 1..Len(out) :
                 out[i].o.title = Get(GivenPhases(r)[i], "title")

\* C15 amended: for every well-formed, schema-conforming reply to a valid
\* narrative the handler answers success = true with as many phases as the
\* reply, in the same order, each with the title the reply gave it, except
\* that a title that is the empty string is replaced by "Phase N", N being
\* the position of the phase.
C15TitlesKept ==
  \A r \in Requests :
    (variant \in {"coded", "stable"} /\ ConformingReplyFor(r)) =>
      /\ Sent(r).status = 200
      /\ Sent(r).body.success
      /\ LET out == Sent(r).body.data.o.roadmap.o.phases.a
         IN /\ Len(out) = Len(GivenPhases(r))
            /\ \A i \in 1..Len(out) :
                 out[i].o.title =
                   IF Get(GivenPhases(r)[i], "title") = Str("")
                     THEN Str(ExpectedPhaseTitles[i])
                     ELSE Get(GivenPhases(r)[i], "title")

\* one request answered with the two titled phases of its reply and another
\* whose untitled second phase came out as "Phase 2"
C15Witness ==
  \E r, q \in Requests :
    /\ variant = "coded"
    /\ ConformingReplyFor(r)
    /\ GivenPhases(r) = << PhaseFoundations, PhaseDepth >>
    /\ Sent(r).body.data.o.roadmap.o.phases.a[2].o.title = Str("Depth")
    /\ ConformingReplyFor(q)
    /\ Get(GivenPhases(q)[2], "title") = Str("")
    /\ Sent(q).body.data.o.roadmap.o.phases.a[1].o.title = Str("Foundations")
    /\ Sent(q).body.data.o.roadmap.o.phases.a[2].o.title = Str("Phase 2")

\* C17: in the iteration with error codes, a POST with a valid narrative
\* whose credential is absent or whose remote call fails is answered 500
\* with the AI-unavailable error (code AI_ERROR) and no data, after at most
\* one call (none without the credential), with no reply to normalise.
C17AiUnavailable ==
  \A r \in Requests :
    (/\ variant = "coded"
     /\ req[r].method = "POST"
     /\ Answered(r)
     /\ UsableNarrative(req[r].input)
     /\ (~apiKey \/ CallFailedFor(r))) =>
      /\ Len(req[r].responses) = 1
      /\ Sent(r).status = 500
      /\ ~Sent(r).body.success
      /\ Sent(r).body.data = Null
      /\ ErrorCode(Sent(r)) = "AI_ERROR"
      /\ ErrorMessage(Sent(r)) = "AI service temporarily unavailable"
      /\ req[r].calls = IF apiKey THEN 1 ELSE 0
      /\ (req[r].rawResponse = <<>> \/ ~req[r].rawResponse[1].ok)

\* a valid request whose call failed was answered 500 AI_ERROR, and so was
\* the next one: nothing was retried
C17Witness ==
  \A r \in Requests :
    /\ variant = "coded"
    /\ UsableNarrative(req[r].input)
    /\ CallFailedFor(r)
    /\ req[r].calls = 1
    /\ Sent(r).status = 500
    /\ ErrorCode(Sent(r)) = "AI_ERROR"

\* request r got as far as the model caller, which asks for the client
ReachedCaller(r) ==
  /\ req[r].method = "POST"
  /\ req[r].pc \in {"awaiting", "done"}
  /\ UsableNarrative(req[r].input)

Uses == Cardinality({ r \in Requests : ReachedCaller(r) })

\* C18 as stated: over any interleaving of requests the client is
\* constructed at most once and then stays, and the credential is read from
\* the process configuration exactly once, at first use.
C18ReadOnce ==
  /\ built <= 1
  /\ genAI = Client <=> built = 1
  /\ genAI = Null <=> built = 0
  /\ envReads = IF Uses >= 1 THEN 1 ELSE 0

\* C18 amended: over any interleaving of requests the client is constructed
\* at most once and then stays; a credential that is set is read exactly
\* once, by the first request that reaches the model caller, which
\* constructs the client; a credential that is absent is read again by every
\* request that reaches the model caller, and no client is constructed.
C18LazyClient ==
  /\ built <= 1
  /\ genAI = Client <=> built = 1
  /\ genAI = Null <=> built = 0
  /\ apiKey => /\ envReads = IF Uses >= 1 THEN 1 ELSE 0
               /\ built = envReads
  /\ ~apiKey => /\ envReads = Uses
                /\ built = 0

\* every request reached the model caller and the one client was
\* constructed from a single read
C18Witness ==
  /\ apiKey
  /\ Uses = NumRequests
  /\ built = 1
  /\ envReads = 1
  /\ genAI = Client

\* the number of outbound calls every request has made so far is the number
\* the claim allows: one once a POST with a narrative that passes validation
\* has asked a configured client, none otherwise
CallsAsAllowed ==
  \A r \in Requests :
    req[r].calls = IF ReachedCaller(r) /\ apiKey THEN 1 ELSE 0

----------------------------------------------------------------------------
(* Null elements in the mapped lists (SpecNormalize) *)

\* C21: when a list the defensive normaliser maps over (roadmap.phases, a
\* phase's skills, resources.learning, resources.communities) holds a null
\* element, the normalisation fails as a whole and the handler answers 500
\* with the processing error (code AI_ERROR where codes exist) and no data:
\* no document without the element or with a defaulted element is returned.
C21NullElementFails ==
  (/\ pOut # <<>>
   /\ pOut[1].v \in {"coded", "stable"}
   /\ ReplyObject(pIn).ok
   /\ MappedNull) =>
    /\ ~pOut[1].bare.ok
    /\ ~pOut[1].fenced.ok
    /\ pOut[1].response.status = 500
    /\ ~pOut[1].response.body.success
    /\ pOut[1].response.body.data = Null
    /\ ErrorMessage(pOut[1].response) = "Failed to process AI response"
    /\ pOut[1].v = "coded" => ErrorCode(pOut[1].response) = "AI_ERROR"

\* a reply whose phases are sound and whose only learning resource is null
\* was refused and answered 500 AI_ERROR
C21Witness ==
  /\ pOut # <<>>
  /\ pOut[1].v = "coded"
  /\ ReplyObject(pIn).ok
  /\ SourcePhases = Arr(<< PhaseNoId >>)
  /\ Get(SourceResources, "learning") = Arr(<< Null >>)
  /\ ~pOut[1].bare.ok
  /\ pOut[1].response.status = 500
  /\ ErrorCode(pOut[1].response) = "AI_ERROR"

====
